---- MODULE Spec2Model ----
(***************************************************************************)
(* Organization provisioning: handle_manage_organization of                *)
(* crates/http/src/management/organization.rs.  One request creates a      *)
(* tenant, a domain and an admin account in the directory store and        *)
(* invalidates the principal caches after each creation.                   *)
(*                                                                         *)
(* Option<T> values are sequences of length at most one: None is <<>> and  *)
(* Some(x) is <<x>>.                                                       *)
(***************************************************************************)
EXTENDS Integers, Sequences, FiniteSets, TLC

\* Largest principal id the directory store hands out in the model.
MaxId == 7

Reqs == {"r1", "r2"}

None == <<>>
Some(x) == <<x>>

Permissions == {"TenantCreate", "DomainCreate", "IndividualCreate"}

PathSegments == {Some("provision"), Some("other"), None}
Methods == {"POST", "GET"}

RequiredKeys == <<"tenantName", "domain", "adminName", "adminPassword", "adminEmail">>
OptionalKeys == {"brandName", "brandLogoUrl", "brandTheme", "description"}
RequiredKeySet == {RequiredKeys[i] : i \in 1..Len(RequiredKeys)}

\* The text a key carries when the client filled it in.
Filled(k) ==
    CASE k = "tenantName" -> "Acme"
      [] k = "domain" -> "acme.test"
      [] k = "adminName" -> "Root"
      [] k = "adminPassword" -> "x"
      [] k = "adminEmail" -> "root@acme.test"
      [] k = "brandName" -> "AcmeBrand"
      [] k = "brandLogoUrl" -> "http://acme.test/logo"
      [] k = "brandTheme" -> "dark"
      [] k = "description" -> "Acme Corp"

\* A JSON object with string members: a function from the keys present to their text.
\* st gives for each required key "missing", "empty" or "filled"; opt is the set of
\* optional keys present.
JsonObject(st, opt) ==
    [k \in {q \in RequiredKeySet : st[q] # "missing"} \cup opt |->
        IF k \in RequiredKeySet /\ st[k] = "empty" THEN "" ELSE Filled(k)]

AllFilled == [k \in RequiredKeySet |-> "filled"]

\* Request bodies: no body, bytes that are not JSON, and JSON objects.  Objects vary
\* the required keys with no optional key, and the optional keys with every required
\* key filled.
Bodies ==
    {None, Some([wf |-> FALSE, obj |-> <<>>])}
    \cup {Some([wf |-> TRUE, obj |-> JsonObject(st, {})]) :
            st \in [RequiredKeySet -> {"missing", "empty", "filled"}]}
    \cup {Some([wf |-> TRUE, obj |-> JsonObject(AllFilled, opt)]) : opt \in SUBSET OptionalKeys}

\* Tenant the access token may be bound to; it exists in the store from the start.
CallerTenantId == 1

Inputs ==
    [path1 : PathSegments, method : Methods, body : Bodies,
     permissions : SUBSET Permissions, tenant : {None, Some([id |-> CallerTenantId])}]

StoreErrors == {"AlreadyExists", "Forbidden"}

VARIABLES
    input,       \* input[r]: path, method, body and access token of request r
    pc,          \* pc[r]: the statement request r executes next
    local,       \* local[r]: the handler's local variables
    outcome,     \* outcome[r]: the Result the handler returned, None while running
    log,         \* log[r]: the calls request r has made on its collaborators, in order
    principals,  \* directory store: id -> principal record
    stale        \* ids whose cached view is out of date

vars == <<input, pc, local, outcome, log, principals, stale>>


(***************************************************************************)
(* Values                                                                  *)
(***************************************************************************)
Ok(v) == [ok |-> TRUE, val |-> v]
Err(e) == [ok |-> FALSE, err |-> e]

Error(type, detail) == [type |-> type, detail |-> detail]

\* PrincipalValue::String and PrincipalValue::StringList
String(s) == [tag |-> "String", val |-> <<s>>]
StringList(l) == [tag |-> "StringList", val |-> l]

\* PrincipalSet::default() followed by the assignment of typ
PrincipalSet(typ) == [typ |-> typ, fields |-> <<>>]

\* fields.insert(k, v)
Insert(p, k, v) ==
    [p EXCEPT !.fields = [x \in DOMAIN p.fields \cup {k} |-> IF x = k THEN v ELSE p.fields[x]]]

\* if let Some(x) = opt { fields.insert(k, String(x.clone())) }
InsertIfSome(p, k, opt) == IF opt # None THEN Insert(p, k, String(opt[1])) ELSE p

(***************************************************************************)
(* Collaborators of the handler                                            *)
(***************************************************************************)
\* AccessToken::assert_has_permission
AssertHasPermission(token, permission) ==
    IF permission \in token.permissions
    THEN Ok(TRUE)
    ELSE Err(Error("PermissionDenied", permission))

\* serde_json::from_slice::<OrganizationProvisionRequest>: the five String members
\* are required, the Option members default to None, keys are camelCase.
GetOpt(obj, k) == IF k \in DOMAIN obj THEN Some(obj[k]) ELSE None

FromSlice(bytes) ==
    IF bytes = None \/ ~bytes[1].wf \/ ~(RequiredKeySet \subseteq DOMAIN bytes[1].obj)
    THEN Err("json")
    ELSE LET obj == bytes[1].obj IN
         Ok([tenant_name |-> obj["tenantName"],
             domain |-> obj["domain"],
             admin_name |-> obj["adminName"],
             admin_password |-> obj["adminPassword"],
             admin_email |-> obj["adminEmail"],
             brand_name |-> GetOpt(obj, "brandName"),
             brand_logo_url |-> GetOpt(obj, "brandLogoUrl"),
             brand_theme |-> GetOpt(obj, "brandTheme"),
             description |-> GetOpt(obj, "description")])

\* manage::err_missing
ErrMissing(field) == Error("MissingField", field)

\* The store's answers to create_principal(principal, tenant, permissions) in a given
\* store state: an error of the store, or a fresh id with the set of principals whose
\* cached view the write changed (the new one and possibly its parent).
CreatePrincipalResults(store, parent) ==
    {Err(Error(e, "store")) : e \in StoreErrors}
    \cup {Ok([id |-> id, changed_principals |-> {id} \cup extra]) :
            id \in (1..MaxId) \ DOMAIN store,
            extra \in {{}, {parent[i] : i \in DOMAIN parent}}}

\* The store after create_principal answered res
StoreAfter(store, principal, parent, res) ==
    IF res.ok
    THEN [i \in DOMAIN store \cup {res.val.id} |->
            IF i = res.val.id
            THEN [typ |-> principal.typ, fields |-> principal.fields, tenant |-> parent]
            ELSE store[i]]
    ELSE store

\* invalidate_principal_caches(ids): the cached views of ids are dropped
InvalidatePrincipalCaches(st, ids) == st \ ids

(***************************************************************************)
(* Initial state                                                           *)
(***************************************************************************)
NoLocals ==
    [request |-> None,
     tenant_result |-> None, new_tenant_id |-> None,
     domain_result |-> None, new_domain_id |-> None,
     admin_result |-> None, new_admin_id |-> None]

InitStore ==
    [i \in {CallerTenantId} |->
        [typ |-> "Tenant", fields |-> Insert(PrincipalSet("Tenant"), "Name", String("Root Org")).fields,
         tenant |-> None]]

\* One request has arrived; the other slot stays empty.
Init ==
    /\ \E i \in Inputs : input = [r \in Reqs |-> IF r = "r1" THEN Some(i) ELSE None]
    /\ pc = [r \in Reqs |-> IF r = "r1" THEN "dispatch" ELSE "absent"]
    /\ local = [r \in Reqs |-> NoLocals]
    /\ outcome = [r \in Reqs |-> None]
    /\ log = [r \in Reqs |-> <<>>]
    /\ principals = InitStore
    /\ stale = {}

(***************************************************************************)
(* handle_manage_organization, statement by statement                      *)
(***************************************************************************)
In(r) == input[r][1]

Logged(r, event) == log' = [log EXCEPT ![r] = Append(@, event)]

\* return res
Return(r, res) ==
    /\ pc' = [pc EXCEPT ![r] = "done"]
    /\ outcome' = [outcome EXCEPT ![r] = Some(res)]

Goto(r, next) ==
    /\ pc' = [pc EXCEPT ![r] = next]
    /\ UNCHANGED outcome

\* The route matched on its path alone
MatchedAnyMethod(i) == i.path1 = Some("provision")

\* match (path.get(1).copied(), req.method())
Matched(i) == i.path1 = Some("provision") /\ i.method = "POST"

\* Dispatch that enters the body parser without the permission gate
DispatchNoAuth(r) ==
    /\ pc[r] = "dispatch"
    /\ IF Matched(In(r))
       THEN Goto(r, "parse")
       ELSE Return(r, Err(Error("NotFound", "")))
    /\ UNCHANGED <<input, local, log, principals, stale>>

Dispatch(r) ==
    /\ pc[r] = "dispatch"
    /\ IF Matched(In(r))
       THEN Goto(r, "assert_tenant_create")
       ELSE Return(r, Err(Error("NotFound", "")))
    /\ UNCHANGED <<input, local, log, principals, stale>>

\* assert_has_permission evaluated with its Result dropped (no `?`)
AssertStepDropped(r, at, permission, next) ==
    /\ pc[r] = at
    /\ LET res == AssertHasPermission(In(r), permission) IN
         Logged(r, [op |-> "assert_has_permission", permission |-> permission, ok |-> res.ok])
    /\ Goto(r, next)
    /\ UNCHANGED <<input, local, principals, stale>>

\* access_token.assert_has_permission(permission)?
AssertStep(r, at, permission, next) ==
    /\ pc[r] = at
    /\ LET res == AssertHasPermission(In(r), permission) IN
         /\ Logged(r, [op |-> "assert_has_permission", permission |-> permission, ok |-> res.ok])
         /\ IF res.ok THEN Goto(r, next) ELSE Return(r, res)
    /\ UNCHANGED <<input, local, principals, stale>>

AssertTenantCreate(r) ==
    /\ pc[r] = "assert_tenant_create"
    /\ AssertStep(r, "assert_tenant_create", "TenantCreate", "assert_domain_create")

AssertDomainCreateNoFailFast(r) ==
    /\ pc[r] = "assert_domain_create"
    /\ AssertStepDropped(r, "assert_domain_create", "DomainCreate", "assert_individual_create")

AssertDomainCreate(r) ==
    /\ pc[r] = "assert_domain_create"
    /\ AssertStep(r, "assert_domain_create", "DomainCreate", "assert_individual_create")

AssertIndividualCreateUnchecked(r) ==
    /\ pc[r] = "assert_individual_create"
    /\ AssertStepDropped(r, "assert_individual_create", "IndividualCreate", "parse")

AssertIndividualCreate(r) ==
    /\ pc[r] = "assert_individual_create"
    /\ AssertStep(r, "assert_individual_create", "IndividualCreate", "parse")

\* ParseBody that goes on to the tenant creation without the field checks
ParseBodyUnvalidated(r) ==
    /\ pc[r] = "parse"
    /\ LET res == FromSlice(In(r).body) IN
         /\ Logged(r, [op |-> "from_slice", ok |-> res.ok])
         /\ IF res.ok
            THEN /\ local' = [local EXCEPT ![r].request = Some(res.val)]
                 /\ Goto(r, "create_tenant")
            ELSE /\ UNCHANGED local
                 /\ Return(r, Err(Error("BadParameters", "")))
    /\ UNCHANGED <<input, principals, stale>>

\* serde_json::from_slice(body.as_deref().unwrap_or_default()).map_err(...)?
ParseBody(r) ==
    /\ pc[r] = "parse"
    /\ LET res == FromSlice(In(r).body) IN
         /\ Logged(r, [op |-> "from_slice", ok |-> res.ok])
         /\ IF res.ok
            THEN /\ local' = [local EXCEPT ![r].request = Some(res.val)]
                 /\ Goto(r, "check_tenant_name")
            ELSE /\ UNCHANGED local
                 /\ Return(r, Err(Error("BadParameters", "")))
    /\ UNCHANGED <<input, principals, stale>>

\* if request.<member>.is_empty() { return Err(manage::err_missing(name)); }
CheckStep(r, at, member, name, next) ==
    /\ pc[r] = at
    /\ LET empty == (member = "") IN
         /\ Logged(r, [op |-> "is_empty", field |-> name, empty |-> empty])
         /\ IF empty THEN Return(r, Err(ErrMissing(name))) ELSE Goto(r, next)
    /\ UNCHANGED <<input, local, principals, stale>>

Request(r) == local[r].request[1]

CheckTenantName(r) ==
    /\ pc[r] = "check_tenant_name"
    /\ CheckStep(r, "check_tenant_name", Request(r).tenant_name, "tenantName", "check_domain")

\* The domain check without its return
CheckDomainNoReturn(r) ==
    /\ pc[r] = "check_domain"
    /\ Logged(r, [op |-> "is_empty", field |-> "domain", empty |-> (Request(r).domain = "")])
    /\ Goto(r, "check_admin_name")
    /\ UNCHANGED <<input, local, principals, stale>>

CheckDomain(r) ==
    /\ pc[r] = "check_domain"
    /\ CheckStep(r, "check_domain", Request(r).domain, "domain", "check_admin_name")

CheckAdminName(r) ==
    /\ pc[r] = "check_admin_name"
    /\ CheckStep(r, "check_admin_name", Request(r).admin_name, "adminName", "check_admin_password")

CheckAdminPassword(r) ==
    /\ pc[r] = "check_admin_password"
    /\ CheckStep(r, "check_admin_password", Request(r).admin_password, "adminPassword",
                 "check_admin_email")

\* The adminEmail check without its return
CheckAdminEmailNoReturn(r) ==
    /\ pc[r] = "check_admin_email"
    /\ Logged(r, [op |-> "is_empty", field |-> "adminEmail",
                  empty |-> (Request(r).admin_email = "")])
    /\ Goto(r, "create_tenant")
    /\ UNCHANGED <<input, local, principals, stale>>

CheckAdminEmail(r) ==
    /\ pc[r] = "check_admin_email"
    /\ CheckStep(r, "check_admin_email", Request(r).admin_email, "adminEmail", "create_tenant")

\* The tenant created without regard to the caller's own tenant
TenantScopeUnscoped(token) == None

\* let tenant_id = access_token.tenant.map(|t| t.id)
TenantScope(token) == IF token.tenant = None THEN None ELSE Some(token.tenant[1].id)

\* Step 1: the tenant record
TenantRecord(request) ==
    LET t0 == Insert(PrincipalSet("Tenant"), "Name", String(request.tenant_name))
        t1 == InsertIfSome(t0, "Description", request.description)
        t2 == InsertIfSome(t1, "BrandName", request.brand_name)
        t3 == InsertIfSome(t2, "BrandLogoUrl", request.brand_logo_url)
    IN  InsertIfSome(t3, "BrandTheme", request.brand_theme)

\* Step 2: the domain record
DomainRecord(request) == Insert(PrincipalSet("Domain"), "Name", String(request.domain))

\* The admin record with the password filed under Emails and the email under Secrets
AdminRecordSwapped(request) ==
    LET a0 == Insert(PrincipalSet("Individual"), "Name", String(request.admin_name))
        a1 == Insert(a0, "Secrets", StringList(<<request.admin_email>>))
        a2 == Insert(a1, "Emails", StringList(<<request.admin_password>>))
    IN  Insert(a2, "Roles", StringList(<<"tenant-admin">>))

\* Step 3: the admin record
AdminRecord(request) ==
    LET a0 == Insert(PrincipalSet("Individual"), "Name", String(request.admin_name))
        a1 == Insert(a0, "Secrets", StringList(<<request.admin_password>>))
        a2 == Insert(a1, "Emails", StringList(<<request.admin_email>>))
    IN  Insert(a2, "Roles", StringList(<<"tenant-admin">>))

\* The parent taken from the most recently created principal
NewTenantScopeLatest(l) ==
    IF l.new_domain_id # None THEN Some(l.new_domain_id[1]) ELSE Some(l.new_tenant_id[1])

\* The parent looked up as the newest tenant of the store, not the one of this request
NewTenantScopeShared(l) ==
    LET tenants == {i \in DOMAIN principals : principals[i].typ = "Tenant"}
    IN  Some(CHOOSE i \in tenants : \A j \in tenants : j <= i)

\* Some(new_tenant_id), the parent of the domain and of the admin
NewTenantScope(l) == Some(l.new_tenant_id[1])

\* create_principal tried a second time after its first failure
CreateStepRetryOnce(r, at, principal, parent, resultVar, idVar, next) ==
    /\ pc[r] = at
    /\ \E res \in CreatePrincipalResults(principals, parent) :
         /\ principals' = StoreAfter(principals, principal, parent, res)
         /\ stale' = IF res.ok THEN stale \cup res.val.changed_principals ELSE stale
         /\ Logged(r, [op |-> "create_principal", principal |-> principal, tenant |-> parent,
                       permissions |-> Some(In(r).permissions), result |-> res])
         /\ IF res.ok
            THEN /\ local' = [local EXCEPT ![r][resultVar] = Some(res.val),
                                           ![r][idVar] = Some(res.val.id)]
                 /\ Goto(r, next)
            ELSE /\ UNCHANGED local
                 /\ IF \E k \in 1..Len(log[r]) :
                          log[r][k].op = "create_principal" /\ ~log[r][k].result.ok
                    THEN Return(r, res)
                    ELSE Goto(r, at)
    /\ UNCHANGED input

\* self.core.storage.data.create_principal(principal, parent, Some(&permissions)).await?
\* followed by let <idVar> = <resultVar>.id
CreateStep(r, at, principal, parent, resultVar, idVar, next) ==
    /\ pc[r] = at
    /\ \E res \in CreatePrincipalResults(principals, parent) :
         /\ principals' = StoreAfter(principals, principal, parent, res)
         /\ stale' = IF res.ok THEN stale \cup res.val.changed_principals ELSE stale
         /\ Logged(r, [op |-> "create_principal", principal |-> principal, tenant |-> parent,
                       permissions |-> Some(In(r).permissions), result |-> res])
         /\ IF res.ok
            THEN /\ local' = [local EXCEPT ![r][resultVar] = Some(res.val),
                                           ![r][idVar] = Some(res.val.id)]
                 /\ Goto(r, next)
            ELSE /\ UNCHANGED local
                 /\ Return(r, res)
    /\ UNCHANGED input

\* Invalidation of the new principal's id alone
InvalidateStepOnlyNew(r, at, resultVar, next) ==
    /\ pc[r] = at
    /\ LET ids == {local[r][resultVar][1].id} IN
         /\ stale' = InvalidatePrincipalCaches(stale, ids)
         /\ Logged(r, [op |-> "invalidate_principal_caches", ids |-> ids])
    /\ Goto(r, next)
    /\ UNCHANGED <<input, local, principals>>

\* self.invalidate_principal_caches(<resultVar>.changed_principals).await
InvalidateStep(r, at, resultVar, next) ==
    /\ pc[r] = at
    /\ LET ids == local[r][resultVar][1].changed_principals IN
         /\ stale' = InvalidatePrincipalCaches(stale, ids)
         /\ Logged(r, [op |-> "invalidate_principal_caches", ids |-> ids])
    /\ Goto(r, next)
    /\ UNCHANGED <<input, local, principals>>

\* Tenant creation whose failure is reported as an error of the handler's own
CreateTenantMapErr(r) ==
    /\ pc[r] = "create_tenant"
    /\ LET principal == TenantRecord(Request(r))
           parent == TenantScope(In(r))
       IN \E res \in CreatePrincipalResults(principals, parent) :
            /\ principals' = StoreAfter(principals, principal, parent, res)
            /\ stale' = IF res.ok THEN stale \cup res.val.changed_principals ELSE stale
            /\ Logged(r, [op |-> "create_principal", principal |-> principal, tenant |-> parent,
                          permissions |-> Some(In(r).permissions), result |-> res])
            /\ IF res.ok
               THEN /\ local' = [local EXCEPT ![r].tenant_result = Some(res.val),
                                              ![r].new_tenant_id = Some(res.val.id)]
                    /\ Goto(r, "invalidate_tenant")
               ELSE /\ UNCHANGED local
                    /\ Return(r, Err(Error("BadParameters", "")))
    /\ UNCHANGED input

CreateTenant(r) ==
    /\ pc[r] = "create_tenant"
    /\ CreateStep(r, "create_tenant", TenantRecord(Request(r)), TenantScope(In(r)),
                  "tenant_result", "new_tenant_id", "invalidate_tenant")

InvalidateTenant(r) ==
    /\ pc[r] = "invalidate_tenant"
    /\ InvalidateStep(r, "invalidate_tenant", "tenant_result", "create_domain")

\* Domain creation whose failure is swallowed: the id defaults to 0 and the admin follows
CreateDomainSwallow(r) ==
    /\ pc[r] = "create_domain"
    /\ LET principal == DomainRecord(Request(r))
           parent == NewTenantScope(local[r])
       IN \E res \in CreatePrincipalResults(principals, parent) :
            /\ principals' = StoreAfter(principals, principal, parent, res)
            /\ stale' = IF res.ok THEN stale \cup res.val.changed_principals ELSE stale
            /\ Logged(r, [op |-> "create_principal", principal |-> principal, tenant |-> parent,
                          permissions |-> Some(In(r).permissions), result |-> res])
            /\ IF res.ok
               THEN /\ local' = [local EXCEPT ![r].domain_result = Some(res.val),
                                              ![r].new_domain_id = Some(res.val.id)]
                    /\ Goto(r, "invalidate_domain")
               ELSE /\ local' = [local EXCEPT ![r].new_domain_id = Some(0)]
                    /\ Goto(r, "create_admin")
    /\ UNCHANGED input

CreateDomain(r) ==
    /\ pc[r] = "create_domain"
    /\ CreateStep(r, "create_domain", DomainRecord(Request(r)), NewTenantScope(local[r]),
                  "domain_result", "new_domain_id", "invalidate_domain")

\* The domain's invalidation left out
InvalidateDomainSkipped(r) ==
    /\ pc[r] = "invalidate_domain"
    /\ Goto(r, "create_admin")
    /\ UNCHANGED <<input, local, log, principals, stale>>

InvalidateDomain(r) ==
    /\ pc[r] = "invalidate_domain"
    /\ InvalidateStep(r, "invalidate_domain", "domain_result", "create_admin")

\* Admin creation that deletes the tenant and the domain again when it fails
CreateAdminRollback(r) ==
    /\ pc[r] = "create_admin"
    /\ LET principal == AdminRecord(Request(r))
           parent == NewTenantScope(local[r])
       IN \E res \in CreatePrincipalResults(principals, parent) :
            /\ Logged(r, [op |-> "create_principal", principal |-> principal, tenant |-> parent,
                          permissions |-> Some(In(r).permissions), result |-> res])
            /\ IF res.ok
               THEN /\ principals' = StoreAfter(principals, principal, parent, res)
                    /\ stale' = stale \cup res.val.changed_principals
                    /\ local' = [local EXCEPT ![r].admin_result = Some(res.val),
                                              ![r].new_admin_id = Some(res.val.id)]
                    /\ Goto(r, "invalidate_admin")
               ELSE /\ principals' =
                          [i \in DOMAIN principals \
                             {local[r].new_tenant_id[1], local[r].new_domain_id[1]} |->
                             principals[i]]
                    /\ UNCHANGED <<stale, local>>
                    /\ Return(r, res)
    /\ UNCHANGED input

CreateAdmin(r) ==
    /\ pc[r] = "create_admin"
    /\ CreateStep(r, "create_admin", AdminRecord(Request(r)), NewTenantScope(local[r]),
                  "admin_result", "new_admin_id", "invalidate_admin")

\* The admin's invalidation followed by a second pass over the admin creation
InvalidateAdminLoopBack(r) ==
    /\ pc[r] = "invalidate_admin"
    /\ LET ids == local[r].admin_result[1].changed_principals IN
         /\ stale' = InvalidatePrincipalCaches(stale, ids)
         /\ Logged(r, [op |-> "invalidate_principal_caches", ids |-> ids])
    /\ IF Len(log[r]) < 16 THEN Goto(r, "create_admin") ELSE Goto(r, "respond")
    /\ UNCHANGED <<input, local, principals>>

InvalidateAdmin(r) ==
    /\ pc[r] = "invalidate_admin"
    /\ InvalidateStep(r, "invalidate_admin", "admin_result", "respond")

\* The response with the domain and admin ids exchanged
ResponseJsonSwapped(l) ==
    [data |-> [tenantId |-> l.new_tenant_id[1],
               domainId |-> l.new_admin_id[1],
               adminId |-> l.new_domain_id[1]]]

\* json!({"data": {"tenantId": ..., "domainId": ..., "adminId": ...}})
ResponseJson(l) ==
    [data |-> [tenantId |-> l.new_tenant_id[1],
               domainId |-> l.new_domain_id[1],
               adminId |-> l.new_admin_id[1]]]

Respond(r) ==
    /\ pc[r] = "respond"
    /\ Return(r, Ok(ResponseJson(local[r])))
    /\ UNCHANGED <<input, local, log, principals, stale>>

\* One statement of request r
Step(r) ==
    \/ Dispatch(r)
    \/ AssertTenantCreate(r)
    \/ AssertDomainCreate(r)
    \/ AssertIndividualCreate(r)
    \/ ParseBody(r)
    \/ CheckTenantName(r)
    \/ CheckDomain(r)
    \/ CheckAdminName(r)
    \/ CheckAdminPassword(r)
    \/ CheckAdminEmail(r)
    \/ CreateTenant(r)
    \/ InvalidateTenant(r)
    \/ CreateDomain(r)
    \/ InvalidateDomain(r)
    \/ CreateAdmin(r)
    \/ InvalidateAdmin(r)
    \/ Respond(r)

Next == \E r \in Reqs : Step(r)

Spec == Init /\ [][Next]_vars

\* Two provisioning requests in flight at once: valid bodies, full capabilities, access
\* tokens bound to no tenant.
ConcInputs ==
    {i \in Inputs :
        /\ Matched(i)
        /\ i.permissions = Permissions
        /\ i.tenant = None
        /\ i.body = Some([wf |-> TRUE, obj |-> JsonObject(AllFilled, {})])}

InitConc ==
    /\ input \in [Reqs -> {Some(i) : i \in ConcInputs}]
    /\ pc = [r \in Reqs |-> "dispatch"]
    /\ local = [r \in Reqs |-> NoLocals]
    /\ outcome = [r \in Reqs |-> None]
    /\ log = [r \in Reqs |-> <<>>]
    /\ principals = InitStore
    /\ stale = {}

SpecConc == InitConc /\ [][Next]_vars

\* Every call a request awaits returns, so a request that can take a step takes it.
FairSpec == Init /\ [][Next]_vars /\ \A r \in Reqs : WF_vars(Step(r))

(***************************************************************************)
(* Vocabulary of the properties                                            *)
(***************************************************************************)
Active == {r \in Reqs : input[r] # None}

Calls(r, op) == SelectSeq(log[r], LAMBDA e : e.op = op)
Creates(r) == Calls(r, "create_principal")
Invalidations(r) == Calls(r, "invalidate_principal_caches")
Asserts(r) == Calls(r, "assert_has_permission")

FullCaps(i) == i.permissions = Permissions
Parses(i) == FromSlice(i.body).ok
EmptyFields(i) == {k \in RequiredKeySet : i.body[1].obj[k] = ""}
Valid(i) == Parses(i) /\ EmptyFields(i) = {}

Done(r) == pc[r] = "done"
Succeeded(r) == Done(r) /\ outcome[r][1].ok
Failed(r) == Done(r) /\ ~outcome[r][1].ok
FailedWith(r, type) == Failed(r) /\ outcome[r][1].err.type = type

CreationOrder == <<"Tenant", "Domain", "Individual">>
PermissionOrder == <<"TenantCreate", "DomainCreate", "IndividualCreate">>

(***************************************************************************)
(* C1                                                                      *)
(***************************************************************************)
\* C1 as stated: every provisioning request whose body parses with an empty required
\* field ends with a missing-field error and makes no create_principal and no
\* invalidation call.
C1_MissingFieldAlways ==
    \A r \in Active :
        (Matched(In(r)) /\ Parses(In(r)) /\ EmptyFields(In(r)) # {}) =>
            /\ Len(Creates(r)) = 0
            /\ Len(Invalidations(r)) = 0
            /\ Done(r) => FailedWith(r, "MissingField")

\* C1 amended: a provisioning request whose body parses with an empty required field
\* never makes a create_principal or invalidation call and leaves the store as it was;
\* it ends with a missing-field error naming an empty field when the caller holds all
\* three capabilities, and with the permission-denied error otherwise.
C1_NoMutationOnMissingField ==
    \A r \in Active :
        (Matched(In(r)) /\ Parses(In(r)) /\ EmptyFields(In(r)) # {}) =>
            /\ Len(Creates(r)) = 0
            /\ Len(Invalidations(r)) = 0
            /\ principals = InitStore
            /\ Done(r) =>
                 IF FullCaps(In(r))
                 THEN /\ FailedWith(r, "MissingField")
                      /\ outcome[r][1].err.detail \in EmptyFields(In(r))
                 ELSE FailedWith(r, "PermissionDenied")

C1_Witness ==
    \E r \in Active :
        /\ Matched(In(r)) /\ Parses(In(r)) /\ FullCaps(In(r))
        /\ EmptyFields(In(r)) = {"adminEmail"}
        /\ FailedWith(r, "MissingField")

(***************************************************************************)
(* C2                                                                      *)
(***************************************************************************)
\* C2: a provisioning request from a caller lacking one of the three capabilities
\* ends with the permission-denied error and makes no create_principal call, whatever
\* its body is.
C2_PermissionDeniedNoStoreCalls ==
    \A r \in Active :
        (Matched(In(r)) /\ ~FullCaps(In(r))) =>
            /\ Len(Creates(r)) = 0
            /\ principals = InitStore
            /\ Done(r) =>
                 /\ FailedWith(r, "PermissionDenied")
                 /\ outcome[r][1].err.detail \in Permissions \ In(r).permissions

C2_Witness ==
    \E r \in Active :
        /\ Matched(In(r)) /\ Valid(In(r))
        /\ In(r).permissions = {"TenantCreate", "DomainCreate"}
        /\ FailedWith(r, "PermissionDenied")

(***************************************************************************)
(* C3                                                                      *)
(***************************************************************************)
\* C3: the create_principal calls of a request are made in the order Tenant, Domain,
\* Individual, the Domain and Individual calls get as parent the id the Tenant call
\* returned, and a valid, fully permitted request whose calls the store all accepted
\* has made exactly three of them when it ends.
C3_ThreeCreationsInOrder ==
    \A r \in Active :
        LET c == Creates(r) IN
        /\ Len(c) <= 3
        /\ \A k \in 1..Len(c) :
             /\ c[k].principal.typ = CreationOrder[k]
             /\ k >= 2 => /\ c[1].result.ok
                          /\ c[k].tenant = Some(c[1].result.val.id)
        /\ (/\ Matched(In(r)) /\ Valid(In(r)) /\ FullCaps(In(r))
            /\ Done(r)
            /\ \A k \in 1..Len(c) : c[k].result.ok) => Len(c) = 3

C3_Witness ==
    \E r \in Active :
        /\ Done(r)
        /\ Len(Creates(r)) = 3
        /\ \A k \in 1..3 : Creates(r)[k].result.ok
        /\ Creates(r)[3].tenant = Some(Creates(r)[1].result.val.id)

(***************************************************************************)
(* C4                                                                      *)
(***************************************************************************)
InvalidatePcs == {"invalidate_tenant", "invalidate_domain", "invalidate_admin"}

\* C4: every successful create_principal call is directly followed by one
\* invalidate_principal_caches call with exactly the changed_principals that creation
\* returned, before the next creation and before the response; a failed creation is
\* followed by nothing, and no other invalidation happens.
C4_InvalidateAfterEachCreation ==
    \A r \in Active :
        LET l == log[r] IN
        /\ \A k \in 1..Len(l) :
             /\ (l[k].op = "create_principal" /\ l[k].result.ok) =>
                   IF k = Len(l)
                   THEN pc[r] \in InvalidatePcs
                   ELSE /\ l[k+1].op = "invalidate_principal_caches"
                        /\ l[k+1].ids = l[k].result.val.changed_principals
             /\ (l[k].op = "create_principal" /\ ~l[k].result.ok) =>
                   k = Len(l) /\ Done(r)
             /\ l[k].op = "invalidate_principal_caches" =>
                   /\ k > 1
                   /\ l[k-1].op = "create_principal"
                   /\ l[k-1].result.ok
        /\ Succeeded(r) => Len(Invalidations(r)) = 3

C4_Witness ==
    \E r \in Active :
        /\ Succeeded(r)
        /\ \E k \in 1..Len(Invalidations(r)) : Cardinality(Invalidations(r)[k].ids) = 2

(***************************************************************************)
(* C5                                                                      *)
(***************************************************************************)
DomainFailed(r) ==
    /\ Len(Creates(r)) >= 2
    /\ Creates(r)[1].result.ok
    /\ ~Creates(r)[2].result.ok

\* C5: when the Tenant creation succeeded and the Domain creation failed, the handler
\* has returned the store's error, the tenant is still in the store as created, and no
\* create_principal call for an Individual was made.
C5_DomainFailureKeepsTenant ==
    \A r \in Active :
        DomainFailed(r) =>
            LET c == Creates(r) IN
            /\ Done(r)
            /\ outcome[r] = Some(c[2].result)
            /\ c[2].result.err.type \in StoreErrors
            /\ c[1].result.val.id \in DOMAIN principals
            /\ principals[c[1].result.val.id] =
                 [typ |-> "Tenant", fields |-> c[1].principal.fields, tenant |-> c[1].tenant]
            /\ \A k \in 1..Len(c) : c[k].principal.typ # "Individual"
            /\ log[r][Len(log[r])] = c[2]

C5_Witness ==
    \E r \in Active :
        /\ DomainFailed(r)
        /\ Done(r)
        /\ Creates(r)[1].result.val.id \in DOMAIN principals

(***************************************************************************)
(* C6                                                                      *)
(***************************************************************************)
AdminFailed(r) ==
    /\ Len(Creates(r)) = 3
    /\ Creates(r)[1].result.ok
    /\ Creates(r)[2].result.ok
    /\ ~Creates(r)[3].result.ok

\* The ids the store returned to the successful creations of request r
CreatedIds(r) ==
    {Creates(r)[k].result.val.id : k \in {j \in 1..Len(Creates(r)) : Creates(r)[j].result.ok}}

\* C6: when the Tenant and Domain creations succeeded and the Individual creation
\* failed, the handler has returned that store error and the tenant and the domain are
\* both still in the store; in general the store holds, besides what it held before,
\* exactly the principals of the creations that succeeded, and a failure at step N
\* follows N-1 successes.
C6_NoRollback ==
    /\ DOMAIN principals = DOMAIN InitStore \cup UNION {CreatedIds(r) : r \in Active}
    /\ \A r \in Active :
         LET c == Creates(r) IN
         /\ \A k \in 1..Len(c) :
              c[k].result.ok =>
                 principals[c[k].result.val.id] =
                    [typ |-> CreationOrder[k], fields |-> c[k].principal.fields,
                     tenant |-> c[k].tenant]
         /\ \A k \in 1..Len(c) :
              ~c[k].result.ok =>
                 /\ k = Len(c)
                 /\ Cardinality(CreatedIds(r)) = k - 1
                 /\ outcome[r] = Some(c[k].result)
         /\ AdminFailed(r) =>
              /\ outcome[r] = Some(c[3].result)
              /\ principals[c[1].result.val.id].typ = "Tenant"
              /\ principals[c[2].result.val.id].typ = "Domain"
              /\ principals[c[2].result.val.id].tenant = Some(c[1].result.val.id)

C6_Witness ==
    \E r \in Active :
        /\ AdminFailed(r)
        /\ Failed(r)
        /\ Cardinality(DOMAIN principals) = Cardinality(DOMAIN InitStore) + 2

(***************************************************************************)
(* C7                                                                      *)
(***************************************************************************)
\* C7: the success response carries as tenantId, domainId and adminId the ids returned
\* by the Tenant, Domain and Individual create_principal calls of the same request.
C7_ResponseIdsMatchCalls ==
    \A r \in Active :
        Succeeded(r) =>
            LET c == Creates(r)
                data == outcome[r][1].val.data
            IN  /\ Len(c) = 3
                /\ \A k \in 1..3 : c[k].principal.typ = CreationOrder[k] /\ c[k].result.ok
                /\ data.tenantId = c[1].result.val.id
                /\ data.domainId = c[2].result.val.id
                /\ data.adminId = c[3].result.val.id

C7_Witness ==
    \E r \in Active :
        /\ Succeeded(r)
        /\ outcome[r][1].val.data.tenantId > outcome[r][1].val.data.adminId
        /\ outcome[r][1].val.data.adminId > outcome[r][1].val.data.domainId

(***************************************************************************)
(* C8                                                                      *)
(***************************************************************************)
\* The validation has finished with event e: the body did not parse, a required field
\* was found empty, or the last field was examined.
FinishesValidation(e) ==
    \/ e.op = "from_slice" /\ ~e.ok
    \/ e.op = "is_empty" /\ (e.empty \/ e.field = "adminEmail")

IsValidationEvent(e) == e.op \in {"from_slice", "is_empty"}

\* C8 as stated: no assert_has_permission check is evaluated before the validation of
\* the request has finished.
C8_ValidationBeforeAuthorization ==
    \A r \in Active :
        \A k \in 1..Len(log[r]) :
            log[r][k].op = "assert_has_permission" =>
                \E j \in 1..(k-1) : FinishesValidation(log[r][j])

\* C8 amended: the validation runs to completion before any mutation step, and after
\* the authorization step: no create_principal call is made before the body was
\* deserialized and the five fields were found non-empty, and neither the
\* deserialization nor a field check is evaluated before the three
\* assert_has_permission checks have passed.
C8_ValidationBeforeMutation ==
    \A r \in Active :
        LET l == log[r] IN
        \A k \in 1..Len(l) :
            /\ l[k].op = "create_principal" =>
                 /\ \E j \in 1..(k-1) : l[j].op = "from_slice" /\ l[j].ok
                 /\ \A f \in RequiredKeySet :
                      \E j \in 1..(k-1) :
                         l[j].op = "is_empty" /\ l[j].field = f /\ ~l[j].empty
            /\ IsValidationEvent(l[k]) =>
                 /\ k > 3
                 /\ \A j \in 1..3 : l[j].op = "assert_has_permission" /\ l[j].ok

C8_Witness ==
    \E r \in Active :
        /\ pc[r] = "invalidate_tenant"
        /\ Len(Calls(r, "is_empty")) = 5
        /\ Len(Asserts(r)) = 3

(***************************************************************************)
(* C9                                                                      *)
(***************************************************************************)
\* C9: authorization comes first, then validation, then mutation: a matched request
\* that lacks a capability and has an invalid body ends with the permission-denied
\* error, never BadParameters or a missing-field error, and in every request the
\* permission checks precede the validation events, which precede the creations.
C9_AuthorizationFirst ==
    \A r \in Active :
        LET l == log[r] IN
        /\ (Matched(In(r)) /\ ~FullCaps(In(r)) /\ ~Valid(In(r)) /\ Done(r)) =>
              /\ FailedWith(r, "PermissionDenied")
              /\ Len(Calls(r, "from_slice")) = 0
              /\ Len(Calls(r, "is_empty")) = 0
        /\ \A j, k \in 1..Len(l) :
              (IsValidationEvent(l[j]) /\ l[k].op = "assert_has_permission") => k < j
        /\ \A j, k \in 1..Len(l) :
              (l[j].op = "create_principal" /\ IsValidationEvent(l[k])) => k < j

C9_Witness ==
    \E r \in Active :
        /\ Matched(In(r))
        /\ In(r).permissions = {"TenantCreate", "IndividualCreate"}
        /\ In(r).body = None
        /\ FailedWith(r, "PermissionDenied")

(***************************************************************************)
(* C10                                                                     *)
(***************************************************************************)
\* The first capability of PermissionOrder that is not in held
FirstMissing(held) ==
    CHOOSE k \in 1..Len(PermissionOrder) :
        /\ PermissionOrder[k] \notin held
        /\ \A j \in 1..(k-1) : PermissionOrder[j] \in held

\* C10: the capabilities are checked in the order TenantCreate, DomainCreate,
\* IndividualCreate, every check but the last one made has passed, and a caller lacking
\* a capability gets the permission-denied error naming the first one it lacks, with no
\* further check or call after the failed one.
C10_PermissionGateFailsFast ==
    \A r \in Active :
        LET a == Asserts(r) IN
        /\ Len(a) <= Len(PermissionOrder)
        /\ \A k \in 1..Len(a) :
             /\ a[k].permission = PermissionOrder[k]
             /\ a[k].ok = (PermissionOrder[k] \in In(r).permissions)
             /\ k < Len(a) => a[k].ok
        /\ (Matched(In(r)) /\ ~FullCaps(In(r)) /\ Done(r)) =>
             /\ FailedWith(r, "PermissionDenied")
             /\ outcome[r][1].err.detail = PermissionOrder[FirstMissing(In(r).permissions)]
             /\ Len(a) = FirstMissing(In(r).permissions)
             /\ Len(log[r]) = Len(a)

C10_Witness ==
    \E r \in Active :
        /\ Matched(In(r))
        /\ In(r).permissions = {"TenantCreate"}
        /\ Failed(r)
        /\ outcome[r][1].err = Error("PermissionDenied", "DomainCreate")

(***************************************************************************)
(* C11                                                                     *)
(***************************************************************************)
FieldChecks(r) == Calls(r, "is_empty")

\* The position in RequiredKeys of the first key whose text is empty in the body
FirstEmpty(i) ==
    CHOOSE k \in 1..Len(RequiredKeys) :
        /\ RequiredKeys[k] \in EmptyFields(i)
        /\ \A j \in 1..(k-1) : RequiredKeys[j] \notin EmptyFields(i)

\* C11: the required fields are examined in the order tenantName, domain, adminName,
\* adminPassword, adminEmail, every field examined before the last one was non-empty,
\* and when a field is empty the missing-field error names the first empty one and no
\* field after it is examined.
C11_FirstEmptyFieldNamed ==
    \A r \in Active :
        LET f == FieldChecks(r) IN
        /\ Len(f) <= Len(RequiredKeys)
        /\ \A k \in 1..Len(f) :
             /\ f[k].field = RequiredKeys[k]
             /\ f[k].empty = (In(r).body[1].obj[RequiredKeys[k]] = "")
             /\ k < Len(f) => ~f[k].empty
        /\ (/\ Matched(In(r)) /\ FullCaps(In(r)) /\ Parses(In(r))
            /\ EmptyFields(In(r)) # {} /\ Done(r)) =>
             /\ outcome[r] = Some(Err(Error("MissingField", RequiredKeys[FirstEmpty(In(r))])))
             /\ Len(f) = FirstEmpty(In(r))
             /\ log[r][Len(log[r])] = f[Len(f)]

C11_Witness ==
    \E r \in Active :
        /\ Parses(In(r))
        /\ EmptyFields(In(r)) = {"domain", "adminName", "adminEmail"}
        /\ Failed(r)
        /\ outcome[r][1].err = Error("MissingField", "domain")
        /\ Len(FieldChecks(r)) = 2

(***************************************************************************)
(* C12                                                                     *)
(***************************************************************************)
\* C12: the Tenant call gets as parent the caller's tenant id when the access token is
\* bound to a tenant and no parent otherwise; the Domain and Individual calls get the
\* id of the tenant created by this request, which is never the caller's tenant id.
C12_TenantParentIsCallerTenant ==
    \A r \in Active :
        LET c == Creates(r) IN
        \A k \in 1..Len(c) :
            /\ c[k].principal.typ = "Tenant" =>
                 c[k].tenant = IF In(r).tenant = None THEN None
                               ELSE Some(In(r).tenant[1].id)
            /\ c[k].principal.typ \in {"Domain", "Individual"} =>
                 /\ c[k].tenant = Some(c[1].result.val.id)
                 /\ c[k].tenant # None
                 /\ In(r).tenant # None => c[k].tenant # Some(In(r).tenant[1].id)

C12_Witness ==
    \E r \in Active :
        /\ In(r).tenant = Some([id |-> CallerTenantId])
        /\ Len(Creates(r)) = 3
        /\ Creates(r)[1].tenant = Some(CallerTenantId)
        /\ Creates(r)[3].tenant # Some(CallerTenantId)

(***************************************************************************)
(* C13                                                                     *)
(***************************************************************************)
\* C13: a request whose second path segment is not "provision" or whose method is not
\* POST ends with the NotFound error without any permission check, body parsing,
\* create_principal call or cache invalidation, whatever the caller's capabilities.
C13_UnmatchedIsNotFound ==
    \A r \in Active :
        (In(r).path1 # Some("provision") \/ In(r).method # "POST") =>
            /\ log[r] = <<>>
            /\ principals = InitStore
            /\ stale = {}
            /\ pc[r] \in {"dispatch", "done"}
            /\ Done(r) => outcome[r] = Some(Err(Error("NotFound", "")))

C13_Witness ==
    \E r \in Active :
        /\ In(r).path1 = Some("provision")
        /\ In(r).method = "GET"
        /\ FullCaps(In(r)) /\ Valid(In(r))
        /\ FailedWith(r, "NotFound")

(***************************************************************************)
(* C14                                                                     *)
(***************************************************************************)
\* C14: within one request each of the record kinds Tenant, Domain and Individual is
\* submitted to create_principal at most once, and a failed create_principal call is
\* the last create_principal call of the request.
C14_NoRetries ==
    \A r \in Active :
        LET c == Creates(r) IN
        /\ \A j, k \in 1..Len(c) : c[j].principal.typ = c[k].principal.typ => j = k
        /\ \A k \in 1..Len(c) : ~c[k].result.ok => k = Len(c)

C14_Witness ==
    \E r \in Active :
        /\ Len(Creates(r)) = 1
        /\ ~Creates(r)[1].result.ok
        /\ Done(r)

(***************************************************************************)
(* C15                                                                     *)
(***************************************************************************)
Running(r) == pc[r] \notin {"done", "absent"}

\* C15: with two requests interleaved, the Domain and Individual calls of a request get
\* as parent the tenant id returned to that same request, which is not an id returned
\* to the other request; a response carries only ids returned to its own calls; and a
\* request that has not ended can always take its next step, whatever the other does.
C15_ConcurrentRequestsIndependent ==
    \A r \in Active :
        LET c == Creates(r) IN
        /\ \A k \in 2..Len(c) :
             /\ c[1].result.ok
             /\ c[k].tenant = Some(c[1].result.val.id)
             /\ \A q \in Active \ {r} : c[k].tenant[1] \notin CreatedIds(q)
        /\ Succeeded(r) =>
             LET data == outcome[r][1].val.data IN
             /\ <<data.tenantId, data.domainId, data.adminId>> =
                   <<c[1].result.val.id, c[2].result.val.id, c[3].result.val.id>>
             /\ \A q \in Active \ {r} :
                   {data.tenantId, data.domainId, data.adminId} \cap CreatedIds(q) = {}
        /\ Running(r) => ENABLED Step(r)

C15_Witness ==
    /\ Active = Reqs
    /\ \A r \in Reqs :
         /\ pc[r] = "create_admin"
         /\ Len(Creates(r)) = 2
         /\ Creates(r)[2].tenant = Some(Creates(r)[1].result.val.id)
    /\ \E r, q \in Reqs :
         /\ r # q
         /\ Creates(r)[1].result.val.id < Creates(q)[1].result.val.id
         /\ Creates(q)[1].result.val.id < Creates(r)[2].result.val.id

(***************************************************************************)
(* C16                                                                     *)
(***************************************************************************)
TenantFailed(r) == Len(Creates(r)) >= 1 /\ ~Creates(r)[1].result.ok

\* C16: when the Tenant create_principal call fails the handler has returned exactly
\* the error value of the store, and the request makes no Domain or Individual call and
\* no cache invalidation call.
C16_TenantFailurePropagated ==
    \A r \in Active :
        TenantFailed(r) =>
            /\ Done(r)
            /\ outcome[r] = Some(Creates(r)[1].result)
            /\ outcome[r][1].err.type \in StoreErrors
            /\ Len(Creates(r)) = 1
            /\ Creates(r)[1].principal.typ = "Tenant"
            /\ Len(Invalidations(r)) = 0
            /\ CreatedIds(r) = {}

C16_Witness ==
    \E r \in Active :
        /\ TenantFailed(r)
        /\ outcome[r] = Some(Err(Error("Forbidden", "store")))
        /\ DOMAIN principals = DOMAIN InitStore

(***************************************************************************)
(* C17                                                                     *)
(***************************************************************************)
\* The first failure of the pipeline authorization, parse, field validation, tenant,
\* domain, admin for input i, the store having answered the creations c
FirstFailure(i, c) ==
    IF ~Matched(i) THEN Error("NotFound", "")
    ELSE IF ~FullCaps(i) THEN Error("PermissionDenied", PermissionOrder[FirstMissing(i.permissions)])
    ELSE IF ~Parses(i) THEN Error("BadParameters", "")
    ELSE IF EmptyFields(i) # {} THEN Error("MissingField", RequiredKeys[FirstEmpty(i)])
    ELSE c[Len(c)].result.err

\* C17: a request has an outcome exactly when it has ended; a success response carries
\* three identifiers and comes only after three successful create_principal calls; an
\* error is the first failure in the order authorization, parse, field validation,
\* tenant, domain, admin.
C17_SingleOutcome ==
    \A r \in Active :
        LET c == Creates(r) IN
        /\ Done(r) <=> outcome[r] # None
        /\ Succeeded(r) =>
             /\ Len(c) = 3
             /\ \A k \in 1..3 : c[k].result.ok
             /\ Cardinality(CreatedIds(r)) = 3
             /\ DOMAIN outcome[r][1].val.data = {"tenantId", "domainId", "adminId"}
        /\ Failed(r) =>
             /\ outcome[r][1].err = FirstFailure(In(r), c)
             /\ \A k \in 1..Len(c) : ~c[k].result.ok <=> k = Len(c)
             /\ (Matched(In(r)) /\ FullCaps(In(r)) /\ Valid(In(r))) => Len(c) >= 1

C17_Witness ==
    \E r \in Active :
        /\ FailedWith(r, "BadParameters")
        /\ In(r).body # None
        /\ In(r).body[1].wf
        /\ "adminEmail" \notin DOMAIN In(r).body[1].obj

(***************************************************************************)
(* C18                                                                     *)
(***************************************************************************)
AtCreateOrEnd(r) == pc[r] \in {"create_tenant", "create_domain", "create_admin", "respond", "done"}

\* C18: whenever a request is about to call create_principal or has ended, each of its
\* successful creations has had its changed_principals invalidated: there are as many
\* invalidations as successful creations, with the same sets, and no cached view is
\* stale.
C18_NothingLeftStale ==
    \A r \in Active :
        AtCreateOrEnd(r) =>
            LET c == Creates(r)
                v == Invalidations(r)
                ok == {k \in 1..Len(c) : c[k].result.ok}
            IN  /\ Len(v) = Cardinality(ok)
                /\ \A k \in ok : v[k].ids = c[k].result.val.changed_principals
                /\ stale = {}

C18_Witness ==
    \E r \in Active :
        /\ AdminFailed(r)
        /\ Failed(r)
        /\ Len(Invalidations(r)) = 2
        /\ \A k \in 1..2 : Cardinality(Invalidations(r)[k].ids) = 2

(***************************************************************************)
(* C19                                                                     *)
(***************************************************************************)
\* The principal field an optional key of the body is stored under
OptionalField(k) ==
    CASE k = "description" -> "Description"
      [] k = "brandName" -> "BrandName"
      [] k = "brandLogoUrl" -> "BrandLogoUrl"
      [] k = "brandTheme" -> "BrandTheme"

\* C19: the Individual record submitted has type Individual, Name the adminName, Roles
\* the list of "tenant-admin" alone, Secrets the list of the adminPassword alone and
\* Emails the list of the adminEmail alone; the Domain record has the Name field only;
\* the Tenant record has Name and, for exactly the optional keys present in the body,
\* Description, BrandName, BrandLogoUrl and BrandTheme with the body's text.
C19_RecordContents ==
    \A r \in Active :
        LET c == Creates(r) IN
        \A k \in 1..Len(c) :
            LET obj == In(r).body[1].obj
                p == c[k].principal
            IN  /\ p.typ \in {"Tenant", "Domain", "Individual"}
                /\ p.typ = "Individual" =>
                     /\ DOMAIN p.fields = {"Name", "Secrets", "Emails", "Roles"}
                     /\ p.fields["Name"] = [tag |-> "String", val |-> <<obj["adminName"]>>]
                     /\ p.fields["Roles"] = [tag |-> "StringList", val |-> <<"tenant-admin">>]
                     /\ p.fields["Secrets"] =
                          [tag |-> "StringList", val |-> <<obj["adminPassword"]>>]
                     /\ p.fields["Emails"] =
                          [tag |-> "StringList", val |-> <<obj["adminEmail"]>>]
                /\ p.typ = "Domain" =>
                     /\ DOMAIN p.fields = {"Name"}
                     /\ p.fields["Name"] = [tag |-> "String", val |-> <<obj["domain"]>>]
                /\ p.typ = "Tenant" =>
                     /\ DOMAIN p.fields =
                          {"Name"} \cup {OptionalField(o) : o \in OptionalKeys \cap DOMAIN obj}
                     /\ p.fields["Name"] = [tag |-> "String", val |-> <<obj["tenantName"]>>]
                     /\ \A o \in OptionalKeys \cap DOMAIN obj :
                          p.fields[OptionalField(o)] = [tag |-> "String", val |-> <<obj[o]>>]

C19_Witness ==
    \E r \in Active :
        /\ Len(Creates(r)) = 3
        /\ OptionalKeys \cap DOMAIN In(r).body[1].obj = {"brandTheme", "description"}
        /\ DOMAIN Creates(r)[1].principal.fields = {"Name", "BrandTheme", "Description"}
        /\ Creates(r)[3].principal.fields["Secrets"].val = <<"x">>

(***************************************************************************)
(* C20                                                                     *)
(***************************************************************************)
PcOrder ==
    <<"dispatch", "assert_tenant_create", "assert_domain_create", "assert_individual_create",
      "parse", "check_tenant_name", "check_domain", "check_admin_name",
      "check_admin_password", "check_admin_email", "create_tenant", "invalidate_tenant",
      "create_domain", "invalidate_domain", "create_admin", "invalidate_admin", "respond",
      "done">>

Rank(p) == IF p = "absent" THEN 0 ELSE CHOOSE k \in 1..Len(PcOrder) : PcOrder[k] = p

\* C20: when every call returns, every request eventually ends with a success response
\* or an error; it makes at most three create_principal and three invalidation calls;
\* and each step takes it to a later statement, never back to an earlier one.
C20_Terminates ==
    /\ <>(\A r \in Active : Done(r) /\ outcome[r] # None)
    /\ [](\A r \in Active : Len(Creates(r)) <= 3 /\ Len(Invalidations(r)) <= 3)
    /\ [][\A r \in Reqs : pc'[r] # pc[r] => Rank(pc'[r]) > Rank(pc[r])]_vars

C20_Witness ==
    \E r \in Active :
        /\ Succeeded(r)
        /\ Len(Creates(r)) = 3
        /\ Len(Invalidations(r)) = 3
        /\ Len(log[r]) = 15

====
